---- MODULE Spec2Model ----
(***************************************************************************)
(* Model of the Bun metrics bridge (bun.ts): the bounded process runner    *)
(* run(), the metric parsers, the probes getGPU / getMemory / getThermals  *)
(* / getPerf and the fetch handler of the HTTP server.                     *)
(*                                                                         *)
(* Text.  A command's output is a sequence of lines.  A line is a record   *)
(* [k, n, fin, w, vals]: k names the wording of the line (the part a       *)
(* regular expression or String.includes looks for, with # for a numeral   *)
(* and @ for a word), n is the value of the numeral the line carries, fin  *)
(* is FALSE for a numeral such as "1.2.3" that [0-9.]+ accepts and         *)
(* Number() turns into NaN, w is the word the line carries ("" when it has *)
(* none).  A JSON document is one line whose k is its outermost form and   *)
(* whose vals are its members' values, in order.  String concatenation is  *)
(* \o.                                                                     *)
(*                                                                         *)
(* Nullable numbers.  null is <<>>, the number x is <<x>>.                 *)
(***************************************************************************)
EXTENDS Integers, Sequences, FiniteSets, TLC

VARIABLES
    req,      \* the request being served by fetch: [method, path]
    cmd,      \* per sub-command: state of the run() call the request made
    exit,     \* per sub-command: exit status of the spawned process (-1: none yet)
    res,      \* per sub-command: the value run() returned
    probe,    \* per probe: the promise of getGPU / getMemory / getThermals
    resp,     \* the response of fetch: [status, kind, body]
    text,     \* input of the parser under test (SpecParse)
    parsed,   \* what parsePmsetTherm returned for it (SpecParse)
    proc,     \* the spawned process of one run() call (SpecRun)
    timer,    \* the timeout timer of that call (SpecRun)
    streams,  \* the two output pipes of that call (SpecRun)
    call,     \* the run() call itself (SpecRun)
    conn,     \* per concurrent request: [path, fate] (SpecConc)
    spawned,  \* per request and sub-command: calls of Bun.spawn made (SpecConc)
    runs,     \* per request and sub-command: state of its run() call (SpecConc)
    results,  \* per request and sub-command: what its run() returned (SpecConc)
    answers   \* per request: the response of fetch (SpecConc)

vars == <<req, cmd, exit, res, probe, resp, text, parsed, proc, timer, streams, call,
         conn, spawned, runs, results, answers>>

----------------------------------------------------------------------------
(* Lines and texts *)

Null == <<>>
Some(x) == <<x>>

L(k, n, fin, w) == [k |-> k, n |-> n, fin |-> fin, w |-> w, vals |-> <<>>]

\* a line that carries a numeral
Num(k, n) == L(k, n, TRUE, "")
\* a line whose numeral is not a finite number ("1.2.3", ".")
NaNLine(k) == L(k, 0, FALSE, "")
\* a line that carries a word, or nothing
Word(k, w) == L(k, 0, TRUE, w)
Plain(k) == L(k, 0, TRUE, "")
\* a JSON document: k is "{}" (object), "[]" (array), "null" or "number"
Json(k, vals) == [k |-> k, n |-> 0, fin |-> TRUE, w |-> "", vals |-> vals]

\* A regular expression is [k, w]: the wording it matches, and the words it
\* accepts where the wording has a word ({} when it accepts any).
Re(k) == [k |-> k, w |-> {}]
Matches(l, re) == l.k = re.k /\ (re.w = {} \/ l.w \in re.w)

\* index of the first line of hay that the expression re matches, 0 when
\* none: String.prototype.match without the g flag
FirstMatch(hay, re) ==
    IF \E i \in 1..Len(hay) : Matches(hay[i], re)
    THEN CHOOSE i \in 1..Len(hay) :
            /\ Matches(hay[i], re)
            /\ \A j \in 1..(i - 1) : ~Matches(hay[j], re)
    ELSE 0

\* String.prototype.includes, for a needle that lies within one line: the
\* text includes it iff one of its lines does
Lines(hay) == {hay[i] : i \in 1..Len(hay)}

\* String.prototype.toLowerCase on the words the lines carry
ToLower(w) ==
    CASE w = "Nominal"     -> "nominal"
      [] w = "NOMINAL"     -> "nominal"
      [] w = "Moderate"    -> "moderate"
      [] w = "Heavy"       -> "heavy"
      [] w = "Critical"    -> "critical"
      [] w = "Subcritical" -> "subcritical"
      [] w = "Serious"     -> "serious"
      [] w = "G"           -> "g"
      [] w = "M"           -> "m"
      [] OTHER             -> w

ToUpper(w) ==
    CASE w = "g" -> "G"
      [] w = "m" -> "M"
      [] OTHER   -> w

\* String.prototype.includes on one word (case-sensitive)
WordIncludes(w, needle) ==
    \/ w = needle
    \/ w = "subcritical" /\ needle = "critical"

----------------------------------------------------------------------------
(* matchNumber and the regular expressions of the parsers *)

\* The i flag of every expression: the wording k of a line is written with
\* letter case set aside, so a comparison of k is case-insensitive.

matchNumber(hay, re) ==
    LET m == FirstMatch(hay, re) IN
    IF m = 0 THEN Null
    ELSE IF ~hay[m].fin THEN Null
    ELSE Some(hay[m].n)

ReGpuFreq   == Re("GPU HW active frequency: # MHz")
ReGpuActive == Re("GPU HW active residency: # %")
ReGpuIdle   == Re("GPU idle residency: # %")
ReGpuPower  == Re("GPU Power: # mW")

parsePowermetricsGPU(out) ==
    [ freq_mhz   |-> matchNumber(out, ReGpuFreq),
      active_pct |-> matchNumber(out, ReGpuActive),
      idle_pct   |-> matchNumber(out, ReGpuIdle),
      power_mw   |-> matchNumber(out, ReGpuPower) ]

\* what the lower-cased text of a memory_pressure line contains ("warning"
\* holds "warn")
HasCritical(l) == l.k = "System memory pressure level: @" /\ ToLower(l.w) = "critical"
HasRed(l)      == l.k = "System memory pressure level: @" /\ ToLower(l.w) = "red"
HasWarn(l)     == l.k = "System memory pressure level: @" /\ ToLower(l.w) \in {"warn", "warning"}
HasWarning(l)  == l.k = "System memory pressure level: @" /\ ToLower(l.w) = "warning"
HasYellow(l)   == l.k = "System memory pressure level: @" /\ ToLower(l.w) = "yellow"
HasNormal(l)   == l.k = "System memory pressure level: @" /\ ToLower(l.w) = "normal"
HasGreen(l)    == l.k = "System memory pressure level: @" /\ ToLower(l.w) = "green"
Has77Pct(l)    == l.k = "System-wide memory free percentage: # %" /\ l.fin /\ l.n = 77
HasFreePct(l)  == l.k = "System-wide memory free percentage: # %"

parseMemoryPressure(out) ==
    LET lower == Lines(out) IN
    IF (\E l \in lower : HasCritical(l)) \/ (\E l \in lower : HasRed(l))
    THEN "red"
    ELSE IF \/ \E l \in lower : HasWarn(l)
            \/ \E l \in lower : HasWarning(l)
            \/ \E l \in lower : HasYellow(l)
    THEN "yellow"
    ELSE IF \/ \E l \in lower : HasNormal(l)
            \/ \E l \in lower : HasGreen(l)
            \/ \E l \in lower : Has77Pct(l)
    THEN "green"
    ELSE IF \E l \in lower : HasFreePct(l) THEN "green"
    ELSE "unknown"

\* /used\s*=\s*([0-9.]+)([MG])\b/i : the unit must be M or G in either case
ReSwapUsed == [k |-> "used = #@", w |-> {"M", "G", "m", "g"}]

\* a swap size in gigabytes is kept as the fraction num/den
parseSwapUsage(sysctlOut) ==
    LET used == FirstMatch(sysctlOut, ReSwapUsed) IN
    IF used = 0 THEN Null
    ELSE LET val  == sysctlOut[used].n
             unit == ToUpper(sysctlOut[used].w)
         IN IF ~sysctlOut[used].fin THEN Null
            ELSE IF unit = "G" THEN Some([num |-> val, den |-> 1])
            ELSE Some([num |-> val, den |-> 1024])

\* a ?? b
Coalesce(a, b) == IF a = Null THEN b ELSE a

ReCpuLimit  == Re("CPU_Speed_Limit = #")
ReGpuLimit  == Re("GPU_Speed_Limit = #")
RePressure1 == Re("ThermalPressure = @")
RePressure2 == Re("Thermal Pressure: @")
RePressure3 == Re("Current pressure level: @")

\* out.includes("No thermal warning level has been recorded")
HasNoThermalWarning(l) == l.k = "Note: No thermal warning level has been recorded"
\* out.includes("No CPU power status has been recorded")
HasNoCpuPower(l) == l.k = "Note: No CPU power status has been recorded"
\* out.includes("Nominal"): case-sensitive, anywhere in the text; the fixed
\* wordings hold no such substring, so it lies in the word a line carries
HasNominal(l) == WordIncludes(l.w, "Nominal")

\* the line the first matching phrasing matched, 0 when none: a || b || c
PressureMatch(out) ==
    IF FirstMatch(out, RePressure1) # 0 THEN FirstMatch(out, RePressure1)
    ELSE IF FirstMatch(out, RePressure2) # 0 THEN FirstMatch(out, RePressure2)
    ELSE FirstMatch(out, RePressure3)

\* lines 154-159: the captured word, lower-cased, classified by containment
ClassifyPressure(word) ==
    LET v == ToLower(word) IN
    IF WordIncludes(v, "nominal") THEN "nominal"
    ELSE IF WordIncludes(v, "moderate") THEN "moderate"
    ELSE IF WordIncludes(v, "heavy") THEN "heavy"
    ELSE IF WordIncludes(v, "critical") THEN "critical"
    ELSE "unknown"

\* mutant of PressureFallback: the recorded-level note alone
PressureFallbackNoteOnly(out) == \E l \in Lines(out) : HasNoThermalWarning(l)

\* line 162: the default applied to a pressure that is still unknown
PressureFallback(out) ==
    \/ \E l \in Lines(out) : HasNoThermalWarning(l)
    \/ \E l \in Lines(out) : HasNominal(l)

\* mutant of parsePmsetTherm: the CPU limit defaults to 100 like the GPU limit
parsePmsetThermCpuDefault(out) ==
    LET cpuLim == matchNumber(out, ReCpuLimit)
        gpuLim == matchNumber(out, ReGpuLimit)
        m == PressureMatch(out)
        matched == IF m # 0 THEN ClassifyPressure(out[m].w) ELSE "unknown"
        pressure == IF matched = "unknown" /\ PressureFallback(out)
                    THEN "nominal" ELSE matched
    IN [cpuLim |-> Coalesce(cpuLim, Some(100)),
        gpuLim |-> Coalesce(gpuLim, Some(100)), pressure |-> pressure]

parsePmsetTherm(out) ==
    LET cpuLim == matchNumber(out, ReCpuLimit)
        gpuLim == matchNumber(out, ReGpuLimit)
        m == PressureMatch(out)
        matched == IF m # 0 THEN ClassifyPressure(out[m].w) ELSE "unknown"
        pressure == IF matched = "unknown" /\ PressureFallback(out)
                    THEN "nominal" ELSE matched
        finalCpuLim == Coalesce(cpuLim,
                          IF (\E l \in Lines(out) : HasNoCpuPower(l)) THEN Some(100) ELSE Null)
        finalGpuLim == Coalesce(gpuLim, Some(100))
    IN [cpuLim |-> finalCpuLim, gpuLim |-> finalGpuLim, pressure |-> pressure]

ReCpuDie  == Re("CPU die temperature: # C")
ReCpuTemp == Re("CPU temperature: # C")
ReGpuDie  == Re("GPU die temperature: # C")
ReGpuTemp == Re("GPU temperature: # C")
\* /SoC die temperature/i and /SOC die temperature/i match the same lines
ReSocDie  == Re("SoC die temperature: # C")
ReSOCDie  == Re("SoC die temperature: # C")
RePmuDie  == Re("PMU die temperature: # C")

parsePowermetricsSMCTemps(out) ==
    [ cpu |-> Coalesce(matchNumber(out, ReCpuDie), matchNumber(out, ReCpuTemp)),
      gpu |-> Coalesce(matchNumber(out, ReGpuDie), matchNumber(out, ReGpuTemp)),
      soc |-> Coalesce(matchNumber(out, ReSocDie),
                 Coalesce(matchNumber(out, ReSOCDie), matchNumber(out, RePmuDie))) ]

----------------------------------------------------------------------------
(* JSON.parse, Object.values and Math.max, as getThermals uses them *)

JsonKinds == {"{}", "[]", "null", "number"}

\* JSON.parse(s) throws unless s is one JSON value (white space aside)
JsonParses(s) == Len(s) = 1 /\ s[1].k \in JsonKinds

\* Object.values(data) throws a TypeError for null; a number has no own
\* enumerable properties
ObjectValuesThrows(data) == data.k = "null"
ObjectValues(data) == IF data.k \in {"{}", "[]"} THEN data.vals ELSE <<>>

\* Math.max(...temps) of a non-empty list of numbers
MathMax(temps) ==
    CHOOSE x \in {temps[i] : i \in 1..Len(temps)} :
        \A i \in 1..Len(temps) : temps[i] <= x

----------------------------------------------------------------------------
(* run(): the value it returns, and the probes built on it *)

\* the status p.exited resolves with after p.kill("SIGKILL"): 128 + 9
SIGKILLED == 137

\* line 108: return { ok: code === 0, stdout, stderr }
RunResult(code, stdout, stderr) ==
    [ok |-> code = 0, stdout |-> stdout, stderr |-> stderr]

\* (r.stdout || "") + (r.stderr || "")
Raw(r) == r.stdout \o r.stderr

getGPU(r) ==
    [ stats |-> parsePowermetricsGPU(Raw(r)),
      raw   |-> Raw(r),
      ok    |-> r.ok ]

getMemory(mp, swap) ==
    [ stats |-> [ pressure |-> parseMemoryPressure(Raw(mp)),
                  swap_gb  |-> parseSwapUsage(Raw(swap)) ],
      raw   |-> <<Plain("=== memory_pressure -Q ===")>> \o Raw(mp)
                \o <<Plain("=== sysctl vm.swapusage ===")>> \o Raw(swap),
      ok    |-> mp.ok /\ swap.ok ]

\* lines 232-247: the temperatures after the M4Temp.swift fallback
FallbackTemps(t, m4temp) ==
    LET m4Raw == Raw(m4temp) IN
    IF t.cpu = Null /\ t.gpu = Null /\ t.soc = Null /\ m4temp.ok
    THEN IF JsonParses(m4Raw) /\ ~ObjectValuesThrows(m4Raw[1])
         THEN LET temps == ObjectValues(m4Raw[1]) IN
              IF Len(temps) > 0
              THEN [cpu |-> Some(MathMax(temps)),
                    gpu |-> Some(MathMax(temps)),
                    soc |-> Some(MathMax(temps))]
              ELSE t
         ELSE t
    ELSE t

\* mutant of ThermalOk: && for ||, as in getMemory
ThermalOkAll(pmset, smc, m4temp) == pmset.ok /\ smc.ok /\ m4temp.ok

\* line 270
ThermalOk(pmset, smc, m4temp) == pmset.ok \/ smc.ok \/ m4temp.ok

getThermals(pmset, smc, m4temp) ==
    LET pmsetRaw == Raw(pmset)
        smcRaw   == Raw(smc)
        m4Raw    == Raw(m4temp)
        p == parsePmsetTherm(pmsetRaw \o smcRaw)
        t == FallbackTemps(parsePowermetricsSMCTemps(smcRaw), m4temp)
    IN [ stats |-> [ cpu_speed_limit_pct |-> p.cpuLim,
                     gpu_speed_limit_pct |-> p.gpuLim,
                     thermal_pressure    |-> p.pressure,
                     cpu_temp_c |-> t.cpu,
                     gpu_temp_c |-> t.gpu,
                     soc_temp_c |-> t.soc,
                     source |-> [ pmset_ok            |-> pmset.ok,
                                  powermetrics_smc_ok |-> smc.ok,
                                  m4_temp_ok          |-> m4temp.ok ] ],
         raw   |-> <<Plain("=== pmset -g therm ===")>> \o pmsetRaw
                   \o <<Plain("=== powermetrics (smc) ===")>> \o smcRaw
                   \o <<Plain("=== M4Temp (HID) ===")>> \o m4Raw,
         ok    |-> ThermalOk(pmset, smc, m4temp) ]

getPerf == [ms_per_step |-> Null, tokens_per_s |-> Null]

----------------------------------------------------------------------------
(* fetch: the /metrics snapshot and the /raw text *)

W1 == "GPU stats missing: powermetrics likely needs sudo."
W2 == "Thermal stats missing: pmset -g therm failed."
W3 == "Temperature sensors (CPU/GPU) are not available via standard powermetrics on M4 Max / macOS 15+."

\* mutant of Pinned: > for >=
PinnedStrict(gpuStats) ==
    LET active == gpuStats.active_pct
        idle   == gpuStats.idle_pct
    IN active # Null /\ idle # Null /\ active[1] > 95 /\ idle[1] <= 2

\* lines 289-291
Pinned(gpuStats) ==
    LET active == gpuStats.active_pct
        idle   == gpuStats.idle_pct
    IN active # Null /\ idle # Null /\ active[1] >= 95 /\ idle[1] <= 2

\* lines 301, 304, 307: the condition of each warning
MissingGPU(gpuStats) == gpuStats.freq_mhz = Null /\ gpuStats.power_mw = Null
PmsetFailed(thermStats) == thermStats.source.pmset_ok = FALSE
\* mutant of NoTempSource: || for &&
NoTempSourceEither(thermStats) ==
    \/ thermStats.source.powermetrics_smc_ok = FALSE
    \/ thermStats.source.m4_temp_ok = FALSE

NoTempSource(thermStats) ==
    /\ thermStats.source.powermetrics_smc_ok = FALSE
    /\ thermStats.source.m4_temp_ok = FALSE

\* lines 300-310
Warnings(gpuStats, thermStats) ==
       (IF MissingGPU(gpuStats) THEN <<W1>> ELSE <<>>)
    \o (IF PmsetFailed(thermStats) THEN <<W2>> ELSE <<>>)
    \o (IF NoTempSource(thermStats) THEN <<W3>> ELSE <<>>)

\* lines 293-311, the timestamp left out
Snapshot(gpu, mem, therm, perf) ==
    [ gpu      |-> gpu.stats,
      memory   |-> mem.stats,
      thermal  |-> therm.stats,
      perf     |-> perf,
      derived  |-> [gpu_pinned |-> Pinned(gpu.stats)],
      warnings |-> Warnings(gpu.stats, therm.stats) ]

\* lines 316-320
RawText(gpu, mem, therm) ==
    <<Plain("=== powermetrics (gpu_power) ===")>> \o gpu.raw \o mem.raw \o therm.raw

----------------------------------------------------------------------------
(* The outcomes of the six sub-commands a request draws from *)

\* in the order fetch spawns them
Cmds == {"gpu", "mp", "swap", "pmset", "smc", "m4temp"}

Out(code, stdout, stderr) == [code |-> code, stdout |-> stdout, stderr |-> stderr]

GpuText(a, i) ==
    << Num("GPU HW active frequency: # MHz", 1398),
       Num("GPU HW active residency: # %", a),
       Num("GPU idle residency: # %", i),
       Num("GPU Power: # mW", 5000) >>

NeedsSudo == <<Plain("powermetrics must be invoked as the superuser")>>

GpuOutcomes ==
    {Out(0, GpuText(a, i), <<>>) : a \in {94, 95, 101}, i \in {2, 3}}
    \cup { Out(0, <<Num("GPU HW active residency: # %", 95)>>, <<>>),
           Out(0, <<NaNLine("GPU HW active residency: # %"),
                    Num("GPU idle residency: # %", 0),
                    Num("GPU Power: # mW", 5000)>>, <<>>),
           Out(0, <<Plain("Machine model: Mac16,5")>>, <<>>),
           Out(1, <<>>, <<>>),
           Out(1, <<>>, NeedsSudo),
           Out(SIGKILLED, GpuText(95, 2), <<>>) }

MpOutcomes ==
    { Out(0, <<Plain("The system has # pages"),
               Num("System-wide memory free percentage: # %", 50)>>, <<>>),
      Out(0, <<Word("System memory pressure level: @", "Critical")>>, <<>>),
      Out(1, <<>>, <<>>) }

SwapOutcomes ==
    { Out(0, <<L("used = #@", 2, TRUE, "G")>>, <<>>),
      Out(0, <<L("used = #@", 512, TRUE, "M")>>, <<>>),
      Out(1, <<>>, <<>>) }

PmsetOutcomes ==
    { Out(0, <<Plain("Note: No thermal warning level has been recorded"),
               Plain("Note: No CPU power status has been recorded")>>, <<>>),
      Out(0, <<Num("CPU_Speed_Limit = #", 80)>>, <<>>),
      Out(1, <<>>, <<>>) }

SmcOutcomes ==
    { Out(0, <<Num("CPU die temperature: # C", 55),
               Num("GPU temperature: # C", 50),
               Word("Current pressure level: @", "Heavy")>>, <<>>),
      Out(0, <<Word("Current pressure level: @", "Nominal")>>, <<>>),
      Out(1, <<>>, <<>>),
      Out(1, <<>>, NeedsSudo) }

SwiftWarning == <<Plain("warning: variable was never mutated")>>

M4Outcomes ==
    { Out(0, <<Json("{}", <<10, 22>>)>>, <<>>),
      Out(0, <<Json("{}", <<10, 22>>)>>, SwiftWarning),
      Out(0, <<Json("{}", <<>>)>>, <<>>),
      Out(1, <<Json("{}", <<10, 22>>)>>, <<>>),
      Out(1, <<>>, <<>>) }

Outcomes(c) ==
    CASE c = "gpu"    -> GpuOutcomes
      [] c = "mp"     -> MpOutcomes
      [] c = "swap"   -> SwapOutcomes
      [] c = "pmset"  -> PmsetOutcomes
      [] c = "smc"    -> SmcOutcomes
      [] c = "m4temp" -> M4Outcomes

----------------------------------------------------------------------------
(* Spec: one request served by fetch *)

NoReq  == [method |-> "", path |-> ""]
NoRes  == [ok |-> FALSE, stdout |-> <<>>, stderr |-> <<>>]
NoResp == [status |-> 0, kind |-> "", body |-> <<>>]

Methods == {"GET", "OPTIONS"}
Paths   == {"/health", "/metrics", "/raw", "/", "/index.html", "/favicon.ico"}

\* json(data, status = 200) and text(data, status = 200)
json(data, status) == [status |-> status, kind |-> "json", body |-> data]
textResponse(data, status) == [status |-> status, kind |-> "text", body |-> data]
\* new Response(file), status 200 by default
fileResponse == [status |-> 200, kind |-> "html", body |-> <<>>]
\* what Bun.serve answers when the promise fetch returned rejects
errorResponse == [status |-> 500, kind |-> "error", body |-> <<>>]

Probes == {"gpu", "mem", "therm"}

\* the run() calls each probe awaits
ProbeCmds(q) ==
    CASE q = "gpu"   -> {"gpu"}
      [] q = "mem"   -> {"mp", "swap"}
      [] q = "therm" -> {"pmset", "smc", "m4temp"}

Pending  == [state |-> "pending"]
Rejected == [state |-> "rejected"]
Resolved(value) == [state |-> "done", stats |-> value.stats, raw |-> value.raw,
                    ok |-> value.ok]

\* mutant of ProbeValue: the thermal probe reads the GPU sampling run in
\* place of the SMC sampling run (both are powermetrics commands)
ProbeValueSharedSample(q, r) ==
    CASE q = "gpu"   -> getGPU(r["gpu"])
      [] q = "mem"   -> getMemory(r["mp"], r["swap"])
      [] q = "therm" -> getThermals(r["pmset"], r["gpu"], r["m4temp"])

\* the value a probe resolves with, on the results r of its runs
ProbeValue(q, r) ==
    CASE q = "gpu"   -> getGPU(r["gpu"])
      [] q = "mem"   -> getMemory(r["mp"], r["swap"])
      [] q = "therm" -> getThermals(r["pmset"], r["smc"], r["m4temp"])

\* lines 287-311 after the joint await, on the resolved probes
MetricsResponse(gpu, mem, therm, perf) ==
    json(Snapshot(gpu, mem, therm, perf), 200)

\* lines 315-320
RawResponse(gpu, mem, therm) ==
    textResponse(RawText(gpu, mem, therm), 200)

Respond(path, pr) ==
    IF path = "/metrics"
    THEN MetricsResponse(pr["gpu"], pr["mem"], pr["therm"], getPerf)
    ELSE RawResponse(pr["gpu"], pr["mem"], pr["therm"])

NoProc    == [state |-> "none", code |-> -1, kind |-> ""]
NoStreams == [outOpen |-> FALSE, errOpen |-> FALSE, out |-> <<>>, err |-> <<>>]
NoCall    == [state |-> "none", result |-> NoRes]
NotParsed == [cpuLim |-> Null, gpuLim |-> Null, pressure |-> ""]

\* the parts of the state a specification leaves alone
NoParse == text = <<>> /\ parsed = NotParsed
NoRun   == proc = NoProc /\ timer = "none" /\ streams = NoStreams /\ call = NoCall
MaxReqs == 2
Reqs == 1..MaxReqs

NoConc ==
    /\ conn = [r \in Reqs |-> [path |-> "", fate |-> ""]]
    /\ spawned = [r \in Reqs |-> [c \in Cmds |-> 0]]
    /\ runs = [r \in Reqs |-> [c \in Cmds |-> "idle"]]
    /\ results = [r \in Reqs |-> [c \in Cmds |-> NoRes]]
    /\ answers = [r \in Reqs |-> NoResp]
NoFetch ==
    /\ req = NoReq
    /\ cmd = [c \in Cmds |-> "idle"]
    /\ exit = [c \in Cmds |-> -1]
    /\ res = [c \in Cmds |-> NoRes]
    /\ probe = [q \in Probes |-> [state |-> "none"]]
    /\ resp = NoResp

Init == NoFetch /\ NoParse /\ NoRun /\ NoConc

\* fetch up to its first suspension.  The six run() calls are made in the
\* same turn: Bun.spawn throws for a command that is not installed, which
\* rejects that run(), its probe, the joint Promise.all and fetch itself.
Fetch(method, path, missing, dashboard) ==
    /\ req = NoReq
    /\ req' = [method |-> method, path |-> path]
    /\ UNCHANGED <<exit, res, text, parsed, proc, timer, streams, call,
                   conn, spawned, runs, results, answers>>
    /\ IF method = "OPTIONS" \/ path = "/health"
       THEN /\ resp' = json("ok", 200)
            /\ UNCHANGED <<cmd, probe>>
       ELSE IF path \in {"/metrics", "/raw"}
       THEN /\ cmd' = [c \in Cmds |-> IF c \in missing THEN "threw" ELSE "running"]
            /\ probe' = [q \in Probes |->
                            IF ProbeCmds(q) \cap missing # {} THEN Rejected
                            ELSE Pending]
            /\ resp' = IF missing # {} THEN errorResponse ELSE NoResp
       ELSE IF path \in {"/", "/index.html"}
       THEN /\ resp' = IF dashboard THEN fileResponse
                       ELSE textResponse("Place dashboard.html next to bun.ts", 404)
            /\ UNCHANGED <<cmd, probe>>
       ELSE /\ resp' = textResponse("Not found", 404)
            /\ UNCHANGED <<cmd, probe>>

\* One run() call returns, and with it every continuation that was waiting
\* for it alone: its probe when this was the probe's last run, and fetch
\* when this was the last probe.
RunReturns(c, o) ==
    /\ cmd[c] = "running"
    /\ cmd' = [cmd EXCEPT ![c] = "returned"]
    /\ exit' = [exit EXCEPT ![c] = o.code]
    /\ res' = [res EXCEPT ![c] = RunResult(o.code, o.stdout, o.stderr)]
    /\ probe' = [q \in Probes |->
                    IF /\ probe[q].state = "pending"
                       /\ \A d \in ProbeCmds(q) : cmd'[d] = "returned"
                    THEN Resolved(ProbeValue(q, res'))
                    ELSE probe[q]]
    /\ resp' = IF resp.status = 0 /\ \A q \in Probes : probe'[q].state = "done"
               THEN Respond(req.path, probe')
               ELSE resp
    /\ UNCHANGED <<req, text, parsed, proc, timer, streams, call,
                   conn, spawned, runs, results, answers>>

Next ==
    \/ \E method \in Methods, path \in Paths, missing \in SUBSET Cmds,
          dashboard \in BOOLEAN :
          Fetch(method, path, missing, dashboard)
    \/ \E c \in Cmds : \E o \in Outcomes(c) : RunReturns(c, o)

Spec == Init /\ [][Next]_vars

----------------------------------------------------------------------------
(* SpecParse: parsePmsetTherm applied to every text of up to MaxLines lines *)

MaxLines == 2

PressureWords ==
    {"Nominal", "NOMINAL", "Moderate", "Heavy", "Critical", "Subcritical", "Serious"}

\* the lines pmset -g therm and powermetrics print, and one line that
\* carries a level without any of the three phrasings
ThermLines ==
    {Word(k, w) : k \in {"ThermalPressure = @", "Thermal Pressure: @",
                         "Current pressure level: @"},
                  w \in PressureWords}
    \cup {Word("Thermal level: @", w) : w \in {"Nominal", "NOMINAL"}}
    \cup { Plain("Note: No thermal warning level has been recorded"),
           Plain("Note: No CPU power status has been recorded"),
           Num("CPU_Speed_Limit = #", 80),
           Num("GPU_Speed_Limit = #", 70) }

InitParse == NoFetch /\ NoParse /\ NoRun /\ NoConc

\* the command prints one more line
PrintLine(l) ==
    /\ parsed = NotParsed
    /\ Len(text) < MaxLines
    /\ text' = Append(text, l)
    /\ UNCHANGED <<parsed, req, cmd, exit, res, probe, resp, proc, timer, streams, call,
                   conn, spawned, runs, results, answers>>

ParseTherm ==
    /\ parsed = NotParsed
    /\ parsed' = parsePmsetTherm(text)
    /\ UNCHANGED <<text, req, cmd, exit, res, probe, resp, proc, timer, streams, call,
                   conn, spawned, runs, results, answers>>

NextParse ==
    \/ \E l \in ThermLines : PrintLine(l)
    \/ ParseTherm

SpecParse == InitParse /\ [][NextParse]_vars

\* one of the three pressure phrasings occurs in the text
SomePhrasing ==
    \E n \in 1..Len(text) :
        text[n].k \in {"ThermalPressure = @", "Thermal Pressure: @",
                       "Current pressure level: @"}

\* the word the first matching phrasing captured (the phrasings in the
\* order the code tries them, each at its first occurrence)
Captured ==
    LET At(k) == CHOOSE n \in 1..Len(text) :
                    /\ text[n].k = k
                    /\ \A j \in 1..(n - 1) : text[j].k # k
        Occurs(k) == \E n \in 1..Len(text) : text[n].k = k
    IN IF Occurs("ThermalPressure = @") THEN text[At("ThermalPressure = @")].w
       ELSE IF Occurs("Thermal Pressure: @") THEN text[At("Thermal Pressure: @")].w
       ELSE text[At("Current pressure level: @")].w

\* the level a word names by case-insensitive containment, "" when none
LevelNamed(w) ==
    LET v == ToLower(w) IN
    IF v = "nominal" THEN "nominal"
    ELSE IF v = "moderate" THEN "moderate"
    ELSE IF v = "heavy" THEN "heavy"
    ELSE IF v \in {"critical", "subcritical"} THEN "critical"
    ELSE ""

StatesNoWarning ==
    \E n \in 1..Len(text) :
        text[n].k = "Note: No thermal warning level has been recorded"

\* the text holds the substring "Nominal", in that letter case
HoldsNominal == \E n \in 1..Len(text) : text[n].w = "Nominal"

\* C10 as claimed: when a phrasing matches, the captured word is classified
\* by case-insensitive containment; when none matches, the result is
\* nominal exactly when the text states that no thermal warning level has
\* been recorded, and unknown otherwise.
C10_PressureAsClaimed ==
    parsed # NotParsed =>
        /\ (SomePhrasing /\ LevelNamed(Captured) # "") =>
              parsed.pressure = LevelNamed(Captured)
        /\ ~SomePhrasing =>
              parsed.pressure = IF StatesNoWarning THEN "nominal" ELSE "unknown"

\* C10 as amended: when a phrasing matches and the captured word names a
\* level, the result is that level; otherwise (no phrasing, or a captured
\* word that names none) the result is nominal exactly when the text states
\* that no thermal warning level has been recorded or holds the substring
\* "Nominal" anywhere, and unknown otherwise.
C10_Pressure ==
    parsed # NotParsed =>
        IF SomePhrasing /\ LevelNamed(Captured) # ""
        THEN parsed.pressure = LevelNamed(Captured)
        ELSE parsed.pressure =
                IF StatesNoWarning \/ HoldsNominal THEN "nominal" ELSE "unknown"

\* a parsed text with no phrasing and no such statement that is nominal
C10_Witness ==
    /\ parsed # NotParsed
    /\ ~SomePhrasing
    /\ ~StatesNoWarning
    /\ parsed.pressure = "nominal"

----------------------------------------------------------------------------
(* SpecRun: one call of run(cmd, timeoutMs), with its process, its pipes   *)
(* and its timer                                                           *)

MaxOut == 1

\* what the process prints
OutLines == {Plain("partial output"), Num("GPU Power: # mW", 5000)}

\* "exits": the process exits by itself at some time; "hangs": it never does
ProcKinds == {"exits", "hangs"}

InitRun == NoFetch /\ NoParse /\ NoRun /\ NoConc

\* lines 94-100, up to the first await.  Bun.spawn throws when the
\* executable is not found, and run() is left by that exception.
Spawn(installed, kind) ==
    /\ call.state = "none"
    /\ IF ~installed
       THEN /\ call' = [call EXCEPT !.state = "threw"]
            /\ UNCHANGED <<proc, timer, streams>>
       ELSE /\ proc' = [state |-> "running", code |-> -1, kind |-> kind]
            /\ timer' = "armed"
            /\ streams' = [outOpen |-> TRUE, errOpen |-> TRUE, out |-> <<>>, err |-> <<>>]
            /\ call' = [call EXCEPT !.state = "reading"]
    /\ UNCHANGED <<req, cmd, exit, res, probe, resp, text, parsed,
                   conn, spawned, runs, results, answers>>

ProcWritesOut(l) ==
    /\ proc.state = "running" /\ streams.outOpen
    /\ Len(streams.out) < MaxOut
    /\ streams' = [streams EXCEPT !.out = Append(@, l)]
    /\ UNCHANGED <<req, cmd, exit, res, probe, resp, text, parsed, proc, timer, call,
                   conn, spawned, runs, results, answers>>

ProcWritesErr(l) ==
    /\ proc.state = "running" /\ streams.errOpen
    /\ Len(streams.err) < MaxOut
    /\ streams' = [streams EXCEPT !.err = Append(@, l)]
    /\ UNCHANGED <<req, cmd, exit, res, probe, resp, text, parsed, proc, timer, call,
                   conn, spawned, runs, results, answers>>

\* the process closes one of its output descriptors and keeps running
ProcClosesOut ==
    /\ proc.state = "running" /\ streams.outOpen
    /\ streams' = [streams EXCEPT !.outOpen = FALSE]
    /\ UNCHANGED <<req, cmd, exit, res, probe, resp, text, parsed, proc, timer, call,
                   conn, spawned, runs, results, answers>>

ProcClosesErr ==
    /\ proc.state = "running" /\ streams.errOpen
    /\ streams' = [streams EXCEPT !.errOpen = FALSE]
    /\ UNCHANGED <<req, cmd, exit, res, probe, resp, text, parsed, proc, timer, call,
                   conn, spawned, runs, results, answers>>

\* the process exits by itself; its descriptors are closed with it
ProcExits(code) ==
    /\ proc.state = "running" /\ proc.kind = "exits"
    /\ proc' = [proc EXCEPT !.state = "exited", !.code = code]
    /\ streams' = [streams EXCEPT !.outOpen = FALSE, !.errOpen = FALSE]
    /\ UNCHANGED <<req, cmd, exit, res, probe, resp, text, parsed, timer, call,
                   conn, spawned, runs, results, answers>>

\* lines 96-98: the timer callback; p.kill on a process that has exited
\* does nothing, and what it throws is swallowed
TimerFires ==
    /\ timer = "armed"
    /\ timer' = "fired"
    /\ IF proc.state = "running"
       THEN /\ proc' = [proc EXCEPT !.state = "exited", !.code = SIGKILLED]
            /\ streams' = [streams EXCEPT !.outOpen = FALSE, !.errOpen = FALSE]
       ELSE UNCHANGED <<proc, streams>>
    /\ UNCHANGED <<req, cmd, exit, res, probe, resp, text, parsed, call,
                   conn, spawned, runs, results, answers>>

\* lines 100-105: both pipes reached their end, the two reads resolve and
\* run() goes on to clearTimeout(timeout) and to await p.exited
ReadsComplete ==
    /\ call.state = "reading"
    /\ ~streams.outOpen /\ ~streams.errOpen
    /\ timer' = IF timer = "armed" THEN "cleared" ELSE timer
    /\ call' = [call EXCEPT !.state = "awaitExit"]
    /\ UNCHANGED <<req, cmd, exit, res, probe, resp, text, parsed, proc, streams,
                   conn, spawned, runs, results, answers>>

\* lines 107-108: p.exited resolved
ExitedResolves ==
    /\ call.state = "awaitExit"
    /\ proc.state = "exited"
    /\ call' = [state |-> "returned",
                result |-> RunResult(proc.code, streams.out, streams.err)]
    /\ UNCHANGED <<req, cmd, exit, res, probe, resp, text, parsed, proc, timer, streams,
                   conn, spawned, runs, results, answers>>

ProcStep ==
    \/ \E l \in OutLines : ProcWritesOut(l)
    \/ \E l \in OutLines : ProcWritesErr(l)
    \/ ProcClosesOut
    \/ ProcClosesErr

NextRun ==
    \/ \E installed \in BOOLEAN, kind \in ProcKinds : Spawn(installed, kind)
    \/ ProcStep
    \/ \E code \in {0, 1} : ProcExits(code)
    \/ TimerFires
    \/ ReadsComplete
    \/ ExitedResolves

SpecRun == InitRun /\ [][NextRun]_vars

\* The event loop runs every callback that is ready, a process of the kind
\* that exits does exit, and an armed timer expires; what a process prints
\* or closes before that is up to the process.
FairSpecRun ==
    /\ SpecRun
    /\ WF_vars(\E code \in {0, 1} : ProcExits(code))
    /\ WF_vars(TimerFires)
    /\ WF_vars(ReadsComplete)
    /\ WF_vars(ExitedResolves)

\* C2: run never raises, also when the binary is missing; the value it
\* returns has ok true iff the process exited with status zero, and stdout
\* and stderr are the captured text.
C2_RunNeverRaises ==
    /\ call.state # "threw"
    /\ call.state = "returned" =>
          /\ call.result.ok = (proc.code = 0)
          /\ call.result.stdout = streams.out
          /\ call.result.stderr = streams.err

\* C3: whatever the spawned process does, a call of run that has spawned it
\* eventually returns.
C3_RunReturns == (call.state = "reading") ~> (call.state = "returned")

----------------------------------------------------------------------------
(* Properties of Spec *)

\* fetch answered GET /metrics with json(...): resp.body is a snapshot
HasSnapshot ==
    /\ req.method = "GET"
    /\ req.path = "/metrics"
    /\ resp.status = 200
    /\ resp.kind = "json"

\* C1: every GET /metrics request that is answered is answered with status
\* 200 and a snapshot, whatever happened to its six sub-commands (launch
\* failure included).
C1_MetricsAlways200 ==
    (req.method = "GET" /\ req.path = "/metrics" /\ resp.status # 0) => HasSnapshot

\* the subsequence of <<W1, W2, W3>> whose warnings are in the set keep
WarningsOf(keep) ==
    LET Kept(w) == w \in keep IN SelectSeq(<<W1, W2, W3>>, Kept)

\* C4: the warnings of a snapshot are exactly the subsequence of W1, W2, W3
\* whose conditions hold: W1 iff freq_mhz and power_mw are both null, W2 iff
\* the pmset command failed, W3 iff the SMC command and the sensor helper
\* both failed; so the list is empty iff none of the three holds.
C4_Warnings ==
    HasSnapshot =>
        LET c1 == resp.body.gpu.freq_mhz = Null /\ resp.body.gpu.power_mw = Null
            c2 == exit["pmset"] # 0
            c3 == exit["smc"] # 0 /\ exit["m4temp"] # 0
        IN /\ resp.body.warnings =
                WarningsOf((IF c1 THEN {W1} ELSE {}) \cup (IF c2 THEN {W2} ELSE {})
                           \cup (IF c3 THEN {W3} ELSE {}))
           /\ (resp.body.warnings = <<>>) <=> (~c1 /\ ~c2 /\ ~c3)

\* a snapshot with W3 alone, and its SMC command failed while the helper ran
C4_Witness ==
    /\ HasSnapshot
    /\ resp.body.warnings = <<W3>>
    /\ exit["pmset"] = 0

\* C5 as claimed: gpu_pinned is true iff active_pct and idle_pct are both
\* non-null, active_pct is in [95,100] and idle_pct is in [0,2].
C5_PinnedInRange ==
    HasSnapshot =>
        LET a == resp.body.gpu.active_pct
            i == resp.body.gpu.idle_pct
        IN resp.body.derived.gpu_pinned <=>
              (a # Null /\ i # Null /\ a[1] >= 95 /\ a[1] <= 100
                 /\ i[1] >= 0 /\ i[1] <= 2)

\* C5 as amended: gpu_pinned is true iff active_pct and idle_pct are both
\* non-null, active_pct >= 95 and idle_pct <= 2; it is false when either is
\* null, and a parsed active residency above 100 still counts as pinned.
C5_Pinned ==
    HasSnapshot =>
        LET a == resp.body.gpu.active_pct
            i == resp.body.gpu.idle_pct
        IN resp.body.derived.gpu_pinned <=>
              (a # Null /\ i # Null /\ a[1] >= 95 /\ i[1] <= 2)

\* a snapshot whose parsed active residency is above 100, and pinned
C5_Witness ==
    /\ HasSnapshot
    /\ resp.body.gpu.active_pct = Some(101)
    /\ resp.body.gpu.idle_pct = Some(2)
    /\ resp.body.derived.gpu_pinned

\* the temperatures parsePowermetricsSMCTemps finds in the SMC run's output
PrimaryTemps == parsePowermetricsSMCTemps(res["smc"].stdout \o res["smc"].stderr)

\* the helper's stdout is a non-empty flat mapping of label to number
HelperMapping ==
    /\ Len(res["m4temp"].stdout) = 1
    /\ res["m4temp"].stdout[1].k = "{}"
    /\ Len(res["m4temp"].stdout[1].vals) > 0

\* C6: the thermal probe's temperatures are the maximum of the helper's
\* mapping when the primary parse found nothing, the helper exited with
\* status zero and its stdout is a non-empty mapping; in every other case
\* they are the primary parse results.
C6_FallbackIff ==
    probe["therm"].state = "done" =>
        LET st == probe["therm"].stats
            fires == /\ PrimaryTemps = [cpu |-> Null, gpu |-> Null, soc |-> Null]
                     /\ exit["m4temp"] = 0
                     /\ HelperMapping
            top == Some(MathMax(res["m4temp"].stdout[1].vals))
        IN [cpu |-> st.cpu_temp_c, gpu |-> st.gpu_temp_c, soc |-> st.soc_temp_c]
             = IF fires THEN [cpu |-> top, gpu |-> top, soc |-> top]
               ELSE PrimaryTemps

\* no line of a text is one the GPU parser's four patterns match
NoGpuPattern(t) ==
    \A n \in 1..Len(t) :
        t[n].k \notin {"GPU HW active frequency: # MHz", "GPU HW active residency: # %",
                       "GPU idle residency: # %", "GPU Power: # mW"}

\* C7: a probe's ok flag is decided by the exit statuses of its commands
\* alone: the GPU probe's by its one command, the memory probe's by both
\* (AND), the thermal probe's by any of its three (OR); a GPU command that
\* succeeds with output matching no pattern gives all-null stats with ok.
C7_ProbeOk ==
    /\ probe["gpu"].state = "done" =>
          /\ probe["gpu"].ok = (exit["gpu"] = 0)
          /\ (exit["gpu"] = 0 /\ NoGpuPattern(res["gpu"].stdout \o res["gpu"].stderr)) =>
                /\ probe["gpu"].ok
                /\ probe["gpu"].stats = [freq_mhz |-> Null, active_pct |-> Null,
                                         idle_pct |-> Null, power_mw |-> Null]
    /\ probe["mem"].state = "done" =>
          probe["mem"].ok = (exit["mp"] = 0 /\ exit["swap"] = 0)
    /\ probe["therm"].state = "done" =>
          probe["therm"].ok =
             (exit["pmset"] = 0 \/ exit["smc"] = 0 \/ exit["m4temp"] = 0)

\* values parsed from the output of a killed GPU command are returned with
\* ok = false, while the thermal probe is ok through one source only
C7_Witness ==
    /\ probe["gpu"].state = "done"
    /\ exit["gpu"] # 0
    /\ ~probe["gpu"].ok
    /\ probe["gpu"].stats.active_pct = Some(95)
    /\ probe["therm"].state = "done"
    /\ probe["therm"].ok
    /\ exit["pmset"] # 0 /\ exit["smc"] # 0

\* every sub-command failed (non-zero exit or forced kill) with empty output
AllFailedEmpty ==
    \A c \in Cmds :
        /\ cmd[c] = "returned"
        /\ exit[c] # 0
        /\ res[c].stdout = <<>>
        /\ res[c].stderr = <<>>

\* the fully degraded snapshot, but for thermal.gpu_speed_limit_pct
Degraded(gpuLimit) ==
    [ gpu      |-> [freq_mhz |-> Null, active_pct |-> Null, idle_pct |-> Null,
                    power_mw |-> Null],
      memory   |-> [pressure |-> "unknown", swap_gb |-> Null],
      thermal  |-> [ cpu_speed_limit_pct |-> Null,
                     gpu_speed_limit_pct |-> gpuLimit,
                     thermal_pressure    |-> "unknown",
                     cpu_temp_c |-> Null, gpu_temp_c |-> Null, soc_temp_c |-> Null,
                     source |-> [pmset_ok |-> FALSE, powermetrics_smc_ok |-> FALSE,
                                 m4_temp_ok |-> FALSE] ],
      perf     |-> [ms_per_step |-> Null, tokens_per_s |-> Null],
      derived  |-> [gpu_pinned |-> FALSE],
      warnings |-> <<W1, W2, W3>> ]

\* C8 as claimed: when every sub-command fails with empty output, every
\* nullable number of the snapshot is null, thermal.gpu_speed_limit_pct
\* included, both pressures are unknown, the source flags and gpu_pinned are
\* false and all three warnings are present.
C8_AllNull ==
    (HasSnapshot /\ AllFailedEmpty) => resp.body = Degraded(Null)

\* C8 as amended: the same, except that thermal.gpu_speed_limit_pct is 100.
C8_Degraded ==
    (HasSnapshot /\ AllFailedEmpty) => resp.body = Degraded(Some(100))

\* a snapshot of six commands that all failed and printed nothing
C8_Witness == HasSnapshot /\ AllFailedEmpty

\* the snapshot of the same request with its GPU command replaced by one
\* that exits with status 1 and prints nothing
WithFailedGPU ==
    LET r == [res EXCEPT !["gpu"] = RunResult(1, <<>>, <<>>)] IN
    Snapshot(ProbeValue("gpu", r), ProbeValue("mem", r), ProbeValue("therm", r),
             getPerf)

InSeq(x, sq) == \E n \in 1..Len(sq) : sq[n] = x

\* C9: replacing a successful GPU command by one that exits non-zero with
\* empty output makes gpu.freq_mhz and gpu.power_mw null and adds W1, and
\* leaves memory, thermal, perf, W2 and W3 as they were.
C9_GpuFailureConfined ==
    (HasSnapshot /\ exit["gpu"] = 0) =>
        /\ WithFailedGPU.gpu.freq_mhz = Null
        /\ WithFailedGPU.gpu.power_mw = Null
        /\ InSeq(W1, WithFailedGPU.warnings)
        /\ WithFailedGPU.memory = resp.body.memory
        /\ WithFailedGPU.thermal = resp.body.thermal
        /\ WithFailedGPU.perf = resp.body.perf
        /\ InSeq(W2, WithFailedGPU.warnings) <=> InSeq(W2, resp.body.warnings)
        /\ InSeq(W3, WithFailedGPU.warnings) <=> InSeq(W3, resp.body.warnings)

\* a snapshot of a successful GPU command with frequency and power, no W1,
\* taken while the SMC command failed
C9_Witness ==
    /\ HasSnapshot
    /\ exit["gpu"] = 0
    /\ exit["smc"] # 0
    /\ resp.body.gpu.freq_mhz # Null
    /\ resp.body.gpu.power_mw # Null
    /\ ~InSeq(W1, resp.body.warnings)

\* the snapshot fetch builds from the results of the six runs, whatever
\* the order in which they were delivered
SnapshotOfResults ==
    Snapshot(ProbeValue("gpu", res), ProbeValue("mem", res), ProbeValue("therm", res),
             getPerf)

\* C11: the response to a /metrics request is produced only after all of
\* its probes and all of their sub-commands have completed, and its
\* snapshot is the function of the six results alone, the same for every
\* order in which the sub-commands completed.
C11_ResponseAfterAll ==
    (req.method = "GET" /\ req.path = "/metrics" /\ resp.status # 0) =>
        /\ \A c \in Cmds : cmd[c] # "running"
        /\ \A q \in Probes : probe[q].state # "pending"
        /\ HasSnapshot => resp.body = SnapshotOfResults

\* The part of C11 that holds: a response that carries a snapshot is
\* produced after all six sub-commands returned and is the function of
\* their results.
C11_SnapshotAfterAll ==
    HasSnapshot =>
        /\ \A c \in Cmds : cmd[c] = "returned"
        /\ \A q \in Probes : probe[q].state = "done"
        /\ resp.body = SnapshotOfResults


----------------------------------------------------------------------------
(* What a call of run, and a request, leave behind *)

\* C13: no subprocess and no timer of a request outlives the response to
\* that request: in every state in which the request has been answered,
\* every call of run it made has been left, so the process that call
\* spawned has exited and its timer is no longer armed.
C13_NothingOutlivesResponse ==
    resp.status # 0 => \A c \in Cmds : cmd[c] # "running"

\* The part of C13 about one call of run, which holds on every path of
\* SpecRun (exit with status zero, exit with another status, kill by the
\* timer): when run has returned, its process has exited and its timer is
\* not armed.
C13_RunCleansUp ==
    call.state = "returned" => (proc.state = "exited" /\ timer # "armed")

\* and the kill is never delivered once run has returned
C13_NoKillAfterReturn ==
    [][call.state = "returned" => ~(proc.state = "running" /\ proc'.state = "exited")]_vars


----------------------------------------------------------------------------
(* SpecConc: requests for /metrics and /raw served concurrently            *)

ConcPaths == {"/metrics", "/raw"}

\* What happens to the six commands of one request: "ok" all exit with
\* status zero; "nosudo" powermetrics refuses to sample; "slow" powermetrics
\* is killed by the timer of run(); "noswift" swift is not installed.
Fates == {"ok", "nosudo", "slow", "noswift"}

\* What the process spawned by request r for command c prints and how it
\* exits.  Every process samples the machine at its own time, so the
\* readings of the processes of one request are readings no process of
\* another request prints.
Sample(r, c, fate) ==
    CASE c = "gpu" ->
            IF fate = "nosudo" THEN Out(1, <<>>, NeedsSudo)
            ELSE IF fate = "slow"
            THEN Out(SIGKILLED, <<Num("GPU HW active frequency: # MHz", 1398 + r)>>, <<>>)
            ELSE Out(0, <<Num("GPU HW active residency: # %", 95 + r),
                          Num("GPU idle residency: # %", 2),
                          Num("GPU Power: # mW", 5000 + r)>>, <<>>)
      [] c = "mp" ->
            Out(0, <<Num("System-wide memory free percentage: # %", 50 + r)>>, <<>>)
      [] c = "swap" ->
            Out(0, <<L("used = #@", 512 + r, TRUE, "M")>>, <<>>)
      [] c = "pmset" ->
            Out(0, <<Num("CPU_Speed_Limit = #", 100 - r)>>, <<>>)
      [] c = "smc" ->
            IF fate = "nosudo" THEN Out(1, <<>>, NeedsSudo)
            ELSE IF fate = "slow" THEN Out(SIGKILLED, <<>>, <<>>)
            ELSE Out(0, <<Num("CPU die temperature: # C", 50 + r)>>, <<>>)
      [] c = "m4temp" ->
            Out(0, <<Json("{}", <<40 + r>>)>>, <<>>)

\* mutant of Awaited: the results are kept in one table per command that
\* every request reads, filled by the request that came first
AwaitedShared(rs, r) == rs[1]

\* the results the continuations of request r work on: those of the run()
\* calls that this invocation of fetch made (locals of its closures)
Awaited(rs, r) == rs[r]

\* the response of fetch once every probe of the request has resolved
Answer(path, rs) ==
    Respond(path, [q \in Probes |-> Resolved(ProbeValue(q, rs))])

InitConc == NoFetch /\ NoParse /\ NoRun /\ NoConc

\* fetch of request r up to its first suspension: six calls of run(), each
\* calling Bun.spawn once
FetchConc(r, path, fate) ==
    /\ conn[r].path = ""
    /\ conn' = [conn EXCEPT ![r] = [path |-> path, fate |-> fate]]
    /\ spawned' = [spawned EXCEPT ![r] = [c \in Cmds |-> spawned[r][c] + 1]]
    /\ runs' = [runs EXCEPT ![r] =
                   [c \in Cmds |-> IF fate = "noswift" /\ c = "m4temp"
                                   THEN "threw" ELSE "running"]]
    /\ answers' = [answers EXCEPT ![r] =
                      IF fate = "noswift" THEN errorResponse ELSE NoResp]
    /\ UNCHANGED <<results, req, cmd, exit, res, probe, resp, text, parsed,
                   proc, timer, streams, call>>

\* one run() call of request r returns, and with it the continuations that
\* were waiting for it alone
ReturnsConc(r, c) ==
    /\ runs[r][c] = "running"
    /\ runs' = [runs EXCEPT ![r][c] = "returned"]
    /\ LET o == Sample(r, c, conn[r].fate)
       IN results' = [results EXCEPT ![r][c] = RunResult(o.code, o.stdout, o.stderr)]
    /\ answers' = IF /\ answers[r].status = 0
                     /\ \A d \in Cmds : runs'[r][d] = "returned"
                  THEN [answers EXCEPT ![r] = Answer(conn[r].path, Awaited(results', r))]
                  ELSE answers
    /\ UNCHANGED <<conn, spawned, req, cmd, exit, res, probe, resp, text, parsed,
                   proc, timer, streams, call>>

NextConc ==
    \/ \E r \in Reqs, path \in ConcPaths, fate \in Fates : FetchConc(r, path, fate)
    \/ \E r \in Reqs, c \in Cmds : ReturnsConc(r, c)

SpecConc == InitConc /\ [][NextConc]_vars

\* what the processes that request r itself spawned have printed
OwnResults(r) ==
    [c \in Cmds |->
        LET o == Sample(r, c, conn[r].fate)
        IN [ok |-> o.code = 0, stdout |-> o.stdout, stderr |-> o.stderr]]

\* C12: under every interleaving of concurrent /metrics and /raw requests,
\* each request has called Bun.spawn exactly once for each of its six
\* sub-commands, also after a failure or a timeout kill, and the response
\* of a request is computed from the results of the processes that this
\* request spawned, and from nothing another request wrote.
C12_OwnFanOut ==
    \A r \in Reqs :
        conn[r].path # "" =>
            /\ \A c \in Cmds : spawned[r][c] = 1
            /\ answers[r].status = 200 =>
                  answers[r] = Respond(conn[r].path,
                                  [q \in Probes |-> Resolved(ProbeValue(q, OwnResults(r)))])
            /\ answers[r].status \notin {0, 200} =>
                  (answers[r] = errorResponse /\ conn[r].fate = "noswift")

\* a request answered from results of which one is a failure, while
\* another request, which samples other readings, has some of its
\* sub-commands returned and others still running
C12_Witness ==
    \E r, t \in Reqs :
        /\ r # t
        /\ answers[r].status = 200
        /\ \E c \in Cmds : ~results[r][c].ok
        /\ conn[t].path # ""
        /\ answers[t].status = 0
        /\ \E c \in Cmds : runs[t][c] = "returned"
        /\ \E c \in Cmds : runs[t][c] = "running"

============================================================================
